---- MODULE Spec2Model ----
(***************************************************************************)
(* Model of the feedback API backend: the backend selector and connection  *)
(* adapter of db.py and the request handlers of feedback_router.py.        *)
(*                                                                         *)
(* Handlers are synchronous FastAPI endpoints, so they run concurrently on *)
(* worker threads, each on its own connection.  A handler is split at its  *)
(* database statements; everything a handler does between two statements   *)
(* (including unwinding the `with` scopes after an exception) is part of   *)
(* the step of the statement before it.                                    *)
(***************************************************************************)
EXTENDS Integers, Sequences, FiniteSets, TLC

(* ------------------------------ bounds -------------------------------- *)
\* requests served after startup
MaxRequests == 3
\* clock ticks the wall clock may advance
MaxClock == 1
\* clock ticks per second of timestamp resolution
TicksPerSecond == 1
\* feedback ids a request may name in its path
MaxFid == 1

(* --------------------------- config.py -------------------------------- *)
ALLOWED_PROJECTS == {"nfrfscenario", "nfrfconnect"}
FEEDBACK_TYPES == {"bug", "feature"}
STATUSES == {"pending", "in_progress", "resolved", "closed"}
SEVERITIES == {"low", "medium", "high", "critical"}
PAGE_SIZE_DEFAULT == 20
PAGE_SIZE_MAX == 100

(* ----------------------------- values --------------------------------- *)
\* Python's None / SQL NULL
None == "NULL"
Backends == {"postgres", "sqlite"}
Reqs == {"r1", "r2"}
NoReq == "none"
\* the worker thread startup runs on, and the first to be given a request
FirstReq == "r1"

\* the text values requests carry, as the characters they are made of
Chars(s) ==
    CASE s = "X" -> <<"X">>
      [] s = "Y" -> <<"Y">>
      [] s = "x" -> <<"x">>
      [] s = "xy" -> <<"x", "y">>
      [] OTHER -> <<>>

Lower(c) == IF c = "X" THEN "x" ELSE IF c = "Y" THEN "y" ELSE c

Fold(backend, cs) ==
    IF backend = "sqlite" THEN [i \in 1..Len(cs) |-> Lower(cs[i])] ELSE cs

\* text LIKE '%pat%': case-insensitive on sqlite, case-sensitive on postgres
Like(backend, text, pat) ==
    LET t == Fold(backend, Chars(text))
        p == Fold(backend, Chars(pat))
    IN \E i \in 0..(Len(t) - Len(p)) : SubSeq(t, i + 1, i + Len(p)) = p

(* ------------------------------ rows ---------------------------------- *)
NoRow == [id |-> 0]

EmptyView == [feedback |-> <<>>, comments |-> <<>>]

\* db.now_iso(): the wall clock truncated to whole seconds
now_iso(clk) == clk \div TicksPerSecond

\* the readings of the wall clock a handler can get when the last reading was
\* clk: the clock does not run backwards
Readings(clk) == clk..MaxClock

(* ------------------- the statements the handlers issue ----------------- *)
\* INSERT INTO feedback (...) VALUES (?,?,?,?,?,'open',?,?,?): the literal
\* status of the statement; id is the backend's next key
InsertStatus == "open"

NewFeedback(v, p, now) ==
    [id |-> Len(v.feedback) + 1,
     project_key |-> p.project_key,
     type |-> p.type,
     title |-> p.title,
     description |-> p.description,
     severity |-> p.severity,
     status |-> InsertStatus,
     created_by |-> p.created_by,
     assignee |-> None,
     resolution |-> None,
     created_at |-> now,
     updated_at |-> now]

InsertFeedback(v, p, now) ==
    [v EXCEPT !.feedback = Append(@, NewFeedback(v, p, now))]

\* INSERT INTO comments (feedback_id, body, created_by, created_at)
InsertComment(v, fid, p, now) ==
    [v EXCEPT !.comments = Append(@,
        [id |-> Len(v.comments) + 1, feedback_id |-> fid, body |-> p.body,
         created_by |-> p.created_by, created_at |-> now])]

\* SELECT * FROM feedback WHERE id=?  /  SELECT * FROM comments WHERE id=?
SelectFeedback(v, fid) ==
    IF fid \in 1..Len(v.feedback) THEN v.feedback[fid] ELSE NoRow

SelectComment(v, cid) ==
    IF cid \in 1..Len(v.comments) THEN v.comments[cid] ELSE NoRow

\* the SET list update_feedback builds from the payload
UpdatableFields ==
    {"status", "assignee", "resolution", "title", "description", "severity"}

UpdateFields(p) == {f \in UpdatableFields : p[f] # None}

\* UPDATE feedback SET <fields>, updated_at=? WHERE id=?
UpdateRow(row, fields, p, now) ==
    [f \in DOMAIN row |->
        IF f \in fields THEN p[f]
        ELSE IF f = "updated_at" THEN now
        ELSE row[f]]

UpdateFeedback(v, fid, fields, p, now) ==
    IF fid \in 1..Len(v.feedback)
    THEN [v EXCEPT !.feedback[fid] = UpdateRow(@, fields, p, now)]
    ELSE v

\* rows the UPDATE ... WHERE id=? affects
UpdateRowcount(v, fid) == IF fid \in 1..Len(v.feedback) THEN 1 ELSE 0

\* the WHERE clause list_feedback builds: a filter is used when it is truthy
Matches(backend, row, q) ==
    /\ (q.project_key # None => row.project_key = q.project_key)
    /\ (q.status # None => row.status = q.status)
    /\ (q.type # None => row.type = q.type)
    /\ (q.search # None =>
           \/ Like(backend, row.title, q.search)
           \/ Like(backend, row.description, q.search))

MatchingIds(backend, v, q) ==
    {i \in 1..Len(v.feedback) : Matches(backend, v.feedback[i], q)}

\* SELECT COUNT(*) FROM feedback {where}
CountFeedback(backend, v, q) == Cardinality(MatchingIds(backend, v, q))

\* ORDER BY created_at DESC|ASC: every order of the matching rows that is
\* sorted on created_at (rows with equal created_at come in any order)
Orderings(backend, v, q) ==
    LET ids == MatchingIds(backend, v, q)
        n == Cardinality(ids)
        desc == q.sort = "-created_at"
        Sorted(s) ==
            \A i \in 1..(n - 1) :
                IF desc
                THEN v.feedback[s[i]].created_at >= v.feedback[s[i + 1]].created_at
                ELSE v.feedback[s[i]].created_at <= v.feedback[s[i + 1]].created_at
    IN {s \in [1..n -> ids] :
            (\A i, j \in 1..n : i # j => s[i] # s[j]) /\ Sorted(s)}

\* LIMIT ? OFFSET ?: postgres rejects a negative LIMIT or OFFSET; sqlite
\* reads a negative LIMIT as no limit and a negative OFFSET as 0
WindowFails(backend, limit, offset) ==
    backend = "postgres" /\ (limit < 0 \/ offset < 0)

Window(s, limit, offset) ==
    LET off == IF offset < 0 THEN 0 ELSE offset
        last == IF limit < 0 \/ off + limit > Len(s) THEN Len(s) ELSE off + limit
    IN SubSeq(s, off + 1, last)

\* page_size clamp of list_feedback
ClampPageSize(page_size) ==
    IF page_size > PAGE_SIZE_MAX THEN PAGE_SIZE_MAX ELSE page_size

(* ------------------------------ state --------------------------------- *)
VARIABLES
    _HAVE_PG,      \* db._HAVE_PG: the asyncpg driver could be imported
    _BACKEND,      \* db._BACKEND: the cached backend choice
    started,       \* app startup (init_db): "no", "yes" or "failed"
    hasTables,     \* per database: the three tables exist
    store,         \* per database: the committed rows
    wlock,         \* the request holding the sqlite write lock, or NoReq
    req,           \* per worker thread: the request it is handling
    clock,         \* the wall clock when a handler last read it, in ticks
    served,        \* requests accepted so far
    openLoops,     \* event loops created and not closed
    openRaw,       \* asyncpg connections opened and not closed
    openSqlite,    \* apsw connections opened and not closed
    firstAttempt   \* backend the first connection request ended on

vars == <<_HAVE_PG, _BACKEND, started, hasTables, store, wlock, req, clock,
          served, openLoops, openRaw, openSqlite, firstAttempt>>

(* --------------------------- DbConnection ------------------------------ *)
\* DbConnection.__init__; txn and work are the raw sqlite connection's open
\* transaction and the rows it sees, last_insert the raw connection's
\* last_insert_rowid() / the session's lastval(), changes the raw sqlite
\* connection's changes()
DbConnection(backend) ==
    [backend |-> backend, _last_rowcount |-> 0, changes |-> 0,
     last_insert |-> 0, txn |-> "none", work |-> EmptyView]

NoCon == DbConnection("none")

\* how a call of _connect_postgres can end
ConnectOutcomes == {"ok", "connect_fails", "schema_fails"}

\* (a selector that forgets the failure and tries client/server again)
BackendAfterFailure_retry == "postgres"

\* the backend _connect records when _connect_postgres raised
BackendAfterFailure == "sqlite"

\* the early return of _connect: a previous call decided on sqlite
DecidedSqlite == _BACKEND = "sqlite"

\* _connect() returning connection c.  _connect_postgres makes its event
\* loop before it connects, so every call of it leaves one more loop
_connect(c) ==
    /\ firstAttempt' = IF firstAttempt = "none" THEN c.backend ELSE firstAttempt
    /\ \/ /\ DecidedSqlite
          /\ c = DbConnection("sqlite")
          /\ openSqlite' = openSqlite + 1
          /\ UNCHANGED <<_BACKEND, openLoops, openRaw>>
       \/ /\ ~DecidedSqlite
          /\ _HAVE_PG
          /\ \E o \in ConnectOutcomes :
                IF o = "ok"
                THEN /\ c = DbConnection("postgres")
                     /\ _BACKEND' = "postgres"
                     /\ openLoops' = openLoops + 1
                     /\ openRaw' = openRaw + 1
                     /\ UNCHANGED openSqlite
                ELSE \* the loop, and the raw connection if connect succeeded,
                     \* are dropped without being closed
                     /\ c = DbConnection("sqlite")
                     /\ _BACKEND' = BackendAfterFailure
                     /\ openLoops' = openLoops + 1
                     /\ openRaw' = openRaw + (IF o = "schema_fails" THEN 1 ELSE 0)
                     /\ openSqlite' = openSqlite + 1
       \/ /\ ~DecidedSqlite
          /\ ~_HAVE_PG
          /\ c = DbConnection("sqlite")
          /\ _BACKEND' = "sqlite"
          /\ openSqlite' = openSqlite + 1
          /\ UNCHANGED <<openLoops, openRaw>>

\* how DbConnection.close can end: the raw postgres close may raise
CloseOutcomes(con) == IF con.backend = "postgres" THEN {TRUE, FALSE} ELSE {TRUE}

\* resources DbConnection.close releases when the raw close returns ok:
\* on postgres the loop is closed only after the raw close returned
LoopsClosed(con, ok) == IF con.backend = "postgres" /\ ok THEN 1 ELSE 0

RawClosed(con, ok) == IF con.backend = "postgres" /\ ok THEN 1 ELSE 0

SqliteClosed(con) == IF con.backend = "sqlite" THEN 1 ELSE 0

(* ----------------------------- requests -------------------------------- *)
\* the fields of the request models of schemas.py and the query parameters
\* of list_feedback, all unset
NoPayload ==
    [project_key |-> None, type |-> None, title |-> None, description |-> None,
     severity |-> None, created_by |-> None, status |-> None, assignee |-> None,
     resolution |-> None, body |-> None, search |-> None,
     page |-> 1, page_size |-> PAGE_SIZE_DEFAULT, sort |-> "-created_at"]

\* FeedbackCreate bodies (type and severity are checked by the schema)
CreatePayloads ==
    {[NoPayload EXCEPT !.project_key = k, !.type = t, !.title = "X",
                       !.description = "Y", !.created_by = "alice"] :
        k \in {"nfrfscenario", "other"}, t \in {"bug"}}

\* FeedbackUpdate bodies: no field, each status alone, and the other fields
StatusUpdate(s) == [NoPayload EXCEPT !.status = s]

UpdatePayloads ==
    {NoPayload}
    \cup {StatusUpdate(s) : s \in {"resolved", "closed"}}
    \cup {[NoPayload EXCEPT !.assignee = "bob", !.resolution = "fixed",
                            !.title = "xy", !.description = "x",
                            !.severity = "low"]}

\* CommentCreate bodies
CommentPayloads == {[NoPayload EXCEPT !.body = "X", !.created_by = "alice"]}

\* list_feedback query strings: a filter on a column, a search, a page
\* before the first, a page_size above the maximum, a negative page_size
ListQueries ==
    {[NoPayload EXCEPT !.status = "closed"],
     [NoPayload EXCEPT !.search = "x", !.sort = "created_at"],
     [NoPayload EXCEPT !.page = 0, !.page_size = 1],
     [NoPayload EXCEPT !.page_size = PAGE_SIZE_MAX + 1],
     [NoPayload EXCEPT !.page = 2, !.page_size = -1]}

\* a worker thread with no request (inserted: the key the request's own
\* INSERT assigned, 0 before it)
Idle ==
    [pc |-> "idle", op |-> "none", fid |-> 0, p |-> NoPayload, now |-> 0,
     con |-> NoCon, backend |-> "none", newid |-> 0, inserted |-> 0,
     rowcount |-> -1,
     total |-> 0, page_size |-> 0, items |-> <<>>, code |-> 0, body |-> NoRow,
     raised |-> FALSE, closeFailed |-> FALSE, committed |-> FALSE]

\* handlers that open a transaction scope: `with db.get_con() as con, con:`
Scoped(op) == op \in {"init_db", "create", "update", "comment"}

\* the rows a statement on connection con sees
View(con) == IF con.txn \in {"read", "write"} THEN con.work ELSE store[con.backend]

\* DbConnection.__enter__: BEGIN on sqlite, nothing on postgres
Enter(con) == IF con.backend = "sqlite" THEN [con EXCEPT !.txn = "deferred"] ELSE con

\* DbConnection.__exit__ on store st: COMMIT or ROLLBACK on sqlite, nothing on
\* postgres (each statement was committed when it ran)
ExitScope(con, exc, st) ==
    IF con.backend = "sqlite" /\ con.txn = "write" /\ ~exc
    THEN [st EXCEPT !["sqlite"] = con.work]
    ELSE st

\* The end of a request: the exit of the transaction scope (when the handler
\* has one), get_con's `finally: con.close()` and the response.  rq is the
\* request after its last statement, st the stores after that statement, exc
\* whether an exception is propagating, code and body the response otherwise.
Finish(r, rq, st, exc, code, body) ==
    LET con == rq.con
        st1 == IF Scoped(rq.op) THEN ExitScope(con, exc, st) ELSE st
    IN /\ store' = st1
       /\ wlock' = IF wlock = r THEN NoReq ELSE wlock
       /\ \E ok \in CloseOutcomes(con) :
            /\ openLoops' = openLoops - LoopsClosed(con, ok)
            /\ openRaw' = openRaw - RawClosed(con, ok)
            /\ openSqlite' = openSqlite - SqliteClosed(con)
            /\ req' = [req EXCEPT ![r] =
                        [rq EXCEPT !.pc = "done",
                                   !.con = NoCon,
                                   !.code = IF ok THEN code ELSE 500,
                                   !.body = IF ok /\ ~exc THEN body ELSE NoRow,
                                   !.raised = exc,
                                   !.closeFailed = ~ok,
                                   !.committed = rq.committed \/ st1 # store]]

\* a response made before any connection was requested
Reject(r, rq, code) ==
    /\ req' = [req EXCEPT ![r] = [rq EXCEPT !.pc = "done", !.code = code]]
    /\ UNCHANGED <<_BACKEND, openLoops, openRaw, openSqlite, firstAttempt>>

(* ------------------------ DbConnection.execute ------------------------- *)
\* the statement names a table init_db never created in this database
TableMissing(con) == ~hasTables[con.backend]

\* a sqlite statement that writes needs the write lock, and a transaction
\* that has read can only write if nothing was committed since (WAL)
CanWrite(r, con) ==
    \/ con.backend = "postgres"
    \/ /\ wlock \in {NoReq, r}
       /\ con.txn = "read" => con.work = store["sqlite"]

\* the write fails with a busy error (at once, or when busy_timeout expires)
Busy(r, con) ==
    /\ con.backend = "sqlite"
    /\ \/ wlock \notin {NoReq, r}
       \/ con.txn = "read" /\ con.work # store["sqlite"]

\* the connection after a mutating statement left view, affected n rows and
\* assigned key lastid: inside a sqlite transaction the rows are pending, and
\* postgres records the count of the status line in _last_rowcount
ExecWrite(con, view, n, lastid) ==
    IF con.backend = "sqlite"
    THEN [con EXCEPT !.txn = "write", !.work = view, !.changes = n,
                     !.last_insert = lastid]
    ELSE [con EXCEPT !._last_rowcount = n, !.last_insert = lastid]

\* the stores after that statement: postgres commits each statement
StoreAfterWrite(con, view) ==
    IF con.backend = "postgres" THEN [store EXCEPT !["postgres"] = view] ELSE store

\* the connection after a SELECT that returned n rows: postgres records
\* len(rows) in _last_rowcount; a sqlite transaction takes its snapshot
ExecSelect(con, n) ==
    IF con.backend = "postgres"
    THEN [con EXCEPT !._last_rowcount = n]
    ELSE IF con.txn = "deferred"
         THEN [con EXCEPT !.txn = "read", !.work = store["sqlite"]]
         ELSE con

\* DbConnection.changes()
changes(con) == IF con.backend = "sqlite" THEN con.changes ELSE con._last_rowcount

\* class DbCursor defines getdescription, fetchone, __iter__ and __next__:
\* `cur.changes()` on the cursor execute returned raises AttributeError
CursorHasChanges == FALSE

(* ------------------------------ actions -------------------------------- *)
\* get_con() of any handler: _connect(), and __enter__ when the handler has
\* a transaction scope
\* worker thread r is at step pc.  A finished request's response is sent
\* (Respond) before any other step is taken: sending it touches nothing shared
At(r, pc) == req[r].pc = pc /\ \A q \in Reqs : req[q].pc # "done"

FirstStep(op) ==
    CASE op = "init_db" -> "ddl"
      [] op = "create" -> "insert"
      [] op = "update" -> "update"
      [] op = "comment" -> "exists"
      [] op = "list" -> "count"

\* get_con() of the handler of request rq on worker thread r
get_con(r, rq) ==
    \E c \in {DbConnection("postgres"), DbConnection("sqlite")} :
        /\ _connect(c)
        /\ req' = [req EXCEPT ![r] =
                    [rq EXCEPT !.con = IF Scoped(rq.op) THEN Enter(c) ELSE c,
                               !.backend = c.backend,
                               !.pc = FirstStep(rq.op)]]

\* the startup hook calls init_db, whose get_con is the process's first
\* connection request
startup(r) ==
    /\ At(r, "connect")
    /\ get_con(r, req[r])
    /\ UNCHANGED <<_HAVE_PG, started, hasTables, store, wlock, clock, served>>

\* init_db(): the DDL and the seeding on the connection's backend, run once
\* by the startup hook before any request is served
init_db(r) ==
    /\ At(r, "ddl")
    /\ hasTables' = [hasTables EXCEPT ![req[r].con.backend] = TRUE]
    /\ Finish(r, req[r], store, FALSE, 200, NoRow)
    /\ started' = IF req'[r].closeFailed THEN "failed" ELSE "yes"
    /\ UNCHANGED <<_HAVE_PG, _BACKEND, clock, served, firstAttempt>>

\* the response has been sent: the worker thread is free again
Respond(r) ==
    /\ req[r].pc = "done"
    /\ req' = [req EXCEPT ![r] = Idle]
    /\ UNCHANGED <<_HAVE_PG, _BACKEND, started, hasTables, store, wlock, clock,
                   served, openLoops, openRaw, openSqlite, firstAttempt>>

\* a request arrives and is given to the first idle worker thread
Accept(r) ==
    /\ started = "yes"
    /\ At(r, "idle")
    /\ r = FirstReq \/ req[FirstReq].pc # "idle"
    /\ served < MaxRequests
    /\ served' = served + 1

\* what a step that only changes the request and the connection's own
\* resources leaves alone
StepFrame ==
    UNCHANGED <<_HAVE_PG, _BACKEND, started, hasTables, clock, served,
                firstAttempt>>

NoResources == UNCHANGED <<openLoops, openRaw, openSqlite>>

(* --------------------------- create_feedback --------------------------- *)
\* the checks of create_feedback: 0 when the payload passes
CreateError(p) ==
    IF p.project_key \notin ALLOWED_PROJECTS THEN 400
    ELSE IF p.type \notin FEEDBACK_TYPES THEN 400
    ELSE IF p.severity # None /\ p.severity \notin SEVERITIES THEN 400
    ELSE 0

create_feedback(r) ==
    /\ Accept(r)
    /\ \E p \in CreatePayloads, t \in Readings(clock) :
          LET rq == [req[r] EXCEPT !.op = "create", !.p = p]
          IN IF CreateError(p) # 0
             THEN Reject(r, rq, CreateError(p)) /\ UNCHANGED clock
             ELSE /\ clock' = t
                  /\ get_con(r, [rq EXCEPT !.now = now_iso(t)])
    /\ UNCHANGED <<_HAVE_PG, started, hasTables, store, wlock>>

\* con.execute("INSERT INTO feedback ...")
create_feedback_insert(r) ==
    LET rq == req[r]
        con == rq.con
        view == InsertFeedback(View(con), rq.p, rq.now)
        con1 == ExecWrite(con, view, 1, Len(view.feedback))
    IN /\ At(r, "insert")
       /\ rq.op = "create"
       /\ StepFrame
       /\ IF TableMissing(con)
          THEN Finish(r, rq, store, TRUE, 500, NoRow)
          ELSE \/ /\ CanWrite(r, con)
                  /\ req' = [req EXCEPT ![r].con = con1,
                                        ![r].inserted = Len(view.feedback),
                                        ![r].rowcount = 1,
                                        ![r].committed = (con.backend = "postgres"),
                                        ![r].pc = "lastid"]
                  /\ store' = StoreAfterWrite(con, view)
                  /\ wlock' = IF con.backend = "sqlite" THEN r ELSE wlock
                  /\ NoResources
               \/ /\ Busy(r, con)
                  /\ Finish(r, rq, store, TRUE, 500, NoRow)

\* the table a request's INSERT goes to
Table(v, op) == IF op = "create" THEN v.feedback ELSE v.comments

\* (a last-inserted id shared by all connections of the database: the key of
\* the newest row of the table the connection can see)
LastInsertId_shared(rq) == Len(Table(View(rq.con), rq.op))

\* what SELECT last_insert_rowid() / SELECT lastval() returns on the request's
\* connection: the key most recently assigned on that connection (session)
LastInsertId(rq) == rq.con.last_insert

\* db.scalar(con, "SELECT last_insert_rowid();"), of create_feedback and of
\* add_comment: last_insert_rowid() on sqlite, lastval() on postgres
scalar_last_insert(r) ==
    /\ At(r, "lastid")
    /\ req' = [req EXCEPT ![r].newid = LastInsertId(req[r]),
                          ![r].con = ExecSelect(req[r].con, 1),
                          ![r].pc = "select"]
    /\ StepFrame
    /\ NoResources
    /\ UNCHANGED <<store, wlock>>

\* next(db.query(con, "SELECT * FROM ... WHERE id=?", (id,))) and the return;
\* next() raises StopIteration when no row has that id
select_inserted(r) ==
    LET rq == req[r]
        con == rq.con
        row == IF rq.op = "create"
               THEN SelectFeedback(View(con), rq.newid)
               ELSE SelectComment(View(con), rq.newid)
        rq1 == [rq EXCEPT !.con = ExecSelect(con, IF row = NoRow THEN 0 ELSE 1)]
    IN /\ At(r, "select")
       /\ StepFrame
       /\ IF row = NoRow
          THEN Finish(r, rq1, store, TRUE, 500, NoRow)
          ELSE Finish(r, rq1, store, FALSE, 200, row)

(* --------------------------- update_feedback --------------------------- *)
\* the checks of update_feedback: 0 when there is something to update
UpdateError(p) ==
    IF p.status # None /\ p.status \notin STATUSES THEN 400
    ELSE IF p.severity # None /\ p.severity \notin SEVERITIES THEN 400
    ELSE IF UpdateFields(p) = {} THEN 400
    ELSE 0

update_feedback(r) ==
    /\ Accept(r)
    /\ \E fid \in 1..MaxFid, p \in UpdatePayloads, t \in Readings(clock) :
          LET rq == [req[r] EXCEPT !.op = "update", !.fid = fid, !.p = p]
          IN IF UpdateError(p) # 0
             THEN Reject(r, rq, UpdateError(p)) /\ UNCHANGED clock
             ELSE /\ clock' = t
                  /\ get_con(r, [rq EXCEPT !.now = now_iso(t)])
    /\ UNCHANGED <<_HAVE_PG, started, hasTables, store, wlock>>

\* cur = con.execute("UPDATE feedback SET ..."), `if cur.changes() == 0`, the
\* SELECT of the updated row and the return
update_feedback_update(r) ==
    LET rq == req[r]
        con == rq.con
        n == UpdateRowcount(View(con), rq.fid)
        view == UpdateFeedback(View(con), rq.fid, UpdateFields(rq.p), rq.p, rq.now)
        con1 == ExecWrite(con, view, n, con.last_insert)
        rq1 == [rq EXCEPT !.con = con1, !.rowcount = n]
        st == StoreAfterWrite(con, view)
    IN /\ At(r, "update")
       /\ StepFrame
       /\ IF TableMissing(con)
          THEN Finish(r, rq, store, TRUE, 500, NoRow)
          ELSE \/ /\ CanWrite(r, con)
                  /\ IF ~CursorHasChanges
                     THEN Finish(r, rq1, st, TRUE, 500, NoRow)
                     ELSE IF changes(con1) = 0
                     THEN Finish(r, rq1, st, TRUE, 404, NoRow)
                     ELSE Finish(r, rq1, st, FALSE, 200, SelectFeedback(view, rq.fid))
               \/ /\ Busy(r, con)
                  /\ Finish(r, rq, store, TRUE, 500, NoRow)

(* ----------------------------- add_comment ----------------------------- *)
add_comment(r) ==
    /\ Accept(r)
    /\ \E fid \in 1..MaxFid, p \in CommentPayloads, t \in Readings(clock) :
          /\ clock' = t
          /\ get_con(r, [req[r] EXCEPT !.op = "comment", !.fid = fid, !.p = p,
                                       !.now = now_iso(t)])
    /\ UNCHANGED <<_HAVE_PG, started, hasTables, store, wlock>>

\* the row SELECT 1 FROM feedback WHERE id=? finds
FeedbackExists(v, fid) == fid \in 1..Len(v.feedback)

\* exists = db.scalar(con, "SELECT 1 FROM feedback WHERE id=?") and the 404
add_comment_exists(r) ==
    LET rq == req[r]
        con == rq.con
        exists == FeedbackExists(View(con), rq.fid)
        rq1 == [rq EXCEPT !.con = ExecSelect(con, IF exists THEN 1 ELSE 0)]
    IN /\ At(r, "exists")
       /\ StepFrame
       /\ IF TableMissing(con)
          THEN Finish(r, rq, store, TRUE, 500, NoRow)
          ELSE IF ~exists
          THEN Finish(r, rq1, store, TRUE, 404, NoRow)
          ELSE /\ req' = [req EXCEPT ![r] = [rq1 EXCEPT !.pc = "insert"]]
               /\ NoResources
               /\ UNCHANGED <<store, wlock>>

\* con.execute("INSERT INTO comments ...")
add_comment_insert(r) ==
    LET rq == req[r]
        con == rq.con
        view == InsertComment(View(con), rq.fid, rq.p, rq.now)
        con1 == ExecWrite(con, view, 1, Len(view.comments))
    IN /\ At(r, "insert")
       /\ rq.op = "comment"
       /\ StepFrame
       /\ \/ /\ CanWrite(r, con)
             /\ req' = [req EXCEPT ![r].con = con1,
                                   ![r].inserted = Len(view.comments),
                                   ![r].rowcount = 1,
                                   ![r].committed = (con.backend = "postgres"),
                                   ![r].pc = "lastid"]
             /\ store' = StoreAfterWrite(con, view)
             /\ wlock' = IF con.backend = "sqlite" THEN r ELSE wlock
             /\ NoResources
          \/ /\ Busy(r, con)
             /\ Finish(r, rq, store, TRUE, 500, NoRow)

(* ---------------------------- list_feedback ---------------------------- *)
list_feedback(r) ==
    /\ Accept(r)
    /\ \E q \in ListQueries :
          get_con(r, [req[r] EXCEPT !.op = "list", !.p = q,
                                    !.page_size = ClampPageSize(q.page_size)])
    /\ UNCHANGED <<_HAVE_PG, started, hasTables, store, wlock, clock>>

\* total = db.scalar(con, "SELECT COUNT(*) FROM feedback {where}") or 0
list_feedback_count(r) ==
    LET rq == req[r]
        con == rq.con
    IN /\ At(r, "count")
       /\ StepFrame
       /\ IF TableMissing(con)
          THEN Finish(r, rq, store, TRUE, 500, NoRow)
          ELSE /\ req' = [req EXCEPT
                    ![r].total = CountFeedback(con.backend, View(con), rq.p),
                    ![r].con = ExecSelect(con, 1),
                    ![r].pc = "page"]
               /\ NoResources
               /\ UNCHANGED <<store, wlock>>

\* offset = (page - 1) * page_size, the page SELECT and the return
list_feedback_page(r) ==
    LET rq == req[r]
        con == rq.con
        offset == (rq.p.page - 1) * rq.page_size
    IN /\ At(r, "page")
       /\ StepFrame
       /\ IF WindowFails(con.backend, rq.page_size, offset)
          THEN Finish(r, rq, store, TRUE, 500, NoRow)
          ELSE \E s \in Orderings(con.backend, View(con), rq.p) :
                  LET ids == Window(s, rq.page_size, offset)
                      items == [i \in 1..Len(ids) |-> View(con).feedback[ids[i]]]
                  IN Finish(r, [rq EXCEPT !.items = items,
                                          !.con = ExecSelect(con, Len(ids))],
                            store, FALSE, 200, NoRow)

(* --------------------------- specification ----------------------------- *)
\* a fresh deployment: both databases empty, and the startup hook about to
\* run init_db on worker thread r1
Init ==
    /\ _HAVE_PG \in BOOLEAN
    /\ _BACKEND = "postgres"
    /\ started = "no"
    /\ hasTables = [b \in Backends |-> FALSE]
    /\ store = [b \in Backends |-> EmptyView]
    /\ wlock = NoReq
    /\ req = [r \in Reqs |->
                IF r = FirstReq
                THEN [Idle EXCEPT !.op = "init_db", !.pc = "connect"]
                ELSE Idle]
    /\ clock = 0
    /\ served = 0
    /\ openLoops = 0
    /\ openRaw = 0
    /\ openSqlite = 0
    /\ firstAttempt = "none"

Next ==
    \E r \in Reqs :
          \/ startup(r)
          \/ init_db(r)
          \/ create_feedback(r)
          \/ create_feedback_insert(r)
          \/ scalar_last_insert(r)
          \/ select_inserted(r)
          \/ update_feedback(r)
          \/ update_feedback_update(r)
          \/ add_comment(r)
          \/ add_comment_exists(r)
          \/ add_comment_insert(r)
          \/ list_feedback(r)
          \/ list_feedback_count(r)
          \/ list_feedback_page(r)
          \/ Respond(r)

Spec == Init /\ [][Next]_vars

(* ------------------------------ claims --------------------------------- *)
Mutations == {"create", "update", "comment"}

Finished(r) == req[r].pc = "done"

\* C1: once the first connection request of the process has ended on the
\* embedded backend (the client/server attempt failed, or the driver is
\* missing), the cached choice is and stays sqlite, no later step makes
\* another client/server attempt (none creates an event loop or a raw
\* connection), and every connection a request gets is an embedded one, so
\* every handler runs its embedded-backend path.
C1_FallbackIsPermanent ==
    [][firstAttempt = "sqlite" =>
          /\ _BACKEND = "sqlite"
          /\ _BACKEND' = "sqlite"
          /\ openLoops' = openLoops
          /\ openRaw' = openRaw
          /\ \A r \in Reqs : req'[r].con.backend # "postgres"
          /\ \A r \in Reqs : req'[r].backend # "postgres"]_vars

\* C1 witness: the client/server attempt of the first connection request
\* failed (its event loop is still there), and a later request has got an
\* embedded connection
C1_Witness ==
    /\ _HAVE_PG
    /\ firstAttempt = "sqlite"
    /\ openLoops = 1
    /\ \E r \in Reqs : req[r].op \in Mutations /\ req[r].con.backend = "sqlite"

\* C2 (as claimed): if the first client/server attempt succeeded, the recorded
\* backend is client/server in every later state and no request ever gets an
\* embedded connection.
C2_PostgresIsPermanent ==
    firstAttempt = "postgres" =>
        /\ _BACKEND = "postgres"
        /\ \A r \in Reqs : req[r].backend # "sqlite"

\* C3 (as claimed): a create, update or add-comment request that ended with an
\* exception propagating out of its transaction scope has changed no stored
\* row, and one that left the scope cleanly after writing has committed.
C3_RollbackOnException ==
    \A r \in Reqs :
        Finished(r) /\ req[r].op \in Mutations =>
            /\ req[r].raised => ~req[r].committed
            /\ ~req[r].raised /\ req[r].rowcount >= 1 => req[r].committed

\* C4 (as claimed): every stored feedback item has a status of the status
\* enumeration, and a create returns its item with status 'pending'.
C4_StatusInEnumeration ==
    /\ \A b \in Backends : \A i \in 1..Len(store[b].feedback) :
          store[b].feedback[i].status \in STATUSES
    /\ \A r \in Reqs :
          Finished(r) /\ req[r].op = "create" /\ req[r].code = 200 =>
              req[r].body.status = "pending"

\* C5 (as claimed): an update request that supplies a status for an existing
\* item succeeds, returns the item, and leaves the stored status equal to the
\* supplied one.
C5_StatusUpdateSucceeds ==
    \A r \in Reqs :
        Finished(r) /\ req[r].op = "update" /\ req[r].p.status # None
                    /\ req[r].rowcount = 1 /\ ~req[r].closeFailed =>
            /\ req[r].code = 200
            /\ req[r].body.status = req[r].p.status
            /\ store[req[r].backend].feedback[req[r].fid].status = req[r].p.status

\* C6 (as claimed): an update request with at least one updatable field whose
\* UPDATE found no row of that id ends with 404 and has changed no row.
C6_UpdateOfMissingIdIs404 ==
    \A r \in Reqs :
        Finished(r) /\ req[r].op = "update" /\ UpdateFields(req[r].p) # {}
                    /\ req[r].rowcount = 0 /\ ~req[r].closeFailed =>
            /\ req[r].code = 404
            /\ ~req[r].committed

\* C7 (as claimed): whenever a stored feedback row changes, the step is the
\* UPDATE of an update request for that row, the fields that change are among
\* the fields the request supplies plus updated_at, and (for a request that
\* read the clock no earlier than the row was created) the new updated_at is
\* not less than the one before.
C7_UpdateFrame ==
    [][\A b \in Backends : \A i \in 1..Len(store[b].feedback) :
          store'[b].feedback[i] # store[b].feedback[i] =>
              \E r \in Reqs :
                  /\ req[r].pc = "update"
                  /\ req[r].fid = i
                  /\ req[r].backend = b
                  /\ \A f \in DOMAIN store[b].feedback[i] :
                        store'[b].feedback[i][f] # store[b].feedback[i][f] =>
                            f \in UpdateFields(req[r].p) \cup {"updated_at"}
                  /\ req[r].now >= store[b].feedback[i].created_at =>
                        store'[b].feedback[i].updated_at
                            >= store[b].feedback[i].updated_at]_vars

\* C8 (as claimed): a create whose project_key is not allowed ends with 400,
\* an update with no updatable field ends with 400, a comment on a feedback
\* id that does not exist ends with 404 (when closing its connection did not
\* fail), and none of them changes a stored row.
C8_RejectedRequestsChangeNothing ==
    \A r \in Reqs :
        Finished(r) =>
            /\ req[r].op = "create" /\ req[r].p.project_key \notin ALLOWED_PROJECTS =>
                  req[r].code = 400 /\ ~req[r].committed
            /\ req[r].op = "update" /\ UpdateFields(req[r].p) = {} =>
                  req[r].code = 400 /\ ~req[r].committed
            /\ req[r].op = "comment" /\ ~req[r].closeFailed
                  /\ ~FeedbackExists(store[req[r].backend], req[r].fid) =>
                  req[r].code = 404 /\ ~req[r].committed

\* C9 (as claimed): every list request returns a total, the page_size it uses
\* is at most the maximum, and the total it returns is the number of stored
\* rows matching its filters when it returns.
C9_TotalIsTrueCount ==
    [][\A r \in Reqs :
          req[r].op = "list" /\ req[r].pc = "page" /\ req'[r].pc = "done"
              /\ ~req'[r].closeFailed =>
              /\ req'[r].code = 200
              /\ req'[r].page_size <= PAGE_SIZE_MAX
              /\ req'[r].total =
                    CountFeedback(req[r].backend, store'[req[r].backend], req[r].p)]_vars

\* C10 (as claimed): when no request is in progress, every event loop, raw
\* client/server connection and embedded connection that was created has
\* been closed.
C10_NothingLeaks ==
    (\A r \in Reqs : req[r].pc \in {"idle", "done"}) =>
        /\ openLoops = 0
        /\ openRaw = 0
        /\ openSqlite = 0

\* C11 (as claimed): on a request's connection, a step of that request that
\* executes only a SELECT (the last-inserted-id read, the existence check,
\* the COUNT) leaves the value of changes() as it was, and after an INSERT
\* changes() is the number of rows that INSERT affected.
C11_ChangesIsLastMutation ==
    [][\A r \in Reqs :
          (/\ req'[r].pc # req[r].pc
           /\ req[r].con.backend # "none"
           /\ req'[r].con.backend # "none") =>
              /\ req[r].pc \in {"lastid", "exists", "count"} =>
                    changes(req'[r].con) = changes(req[r].con)
              /\ req[r].pc = "insert" =>
                    changes(req'[r].con) = req'[r].rowcount]_vars

====
